---- MODULE Spec2Model ----
(***************************************************************************)
(* The thermostat controller of artifacts/ThermostatV4.py: the mode state  *)
(* machine (TemperatureMachine), the schedule lookup and effective         *)
(* setpoint, the moving-average filter, the light (actuator) policy, the   *)
(* periodic display loop (manageMyDisplay, its own thread) and the button  *)
(* handlers (called from the button callback thread).                      *)
(*                                                                         *)
(* Units.  Temperatures are kept exact: Fahrenheit values are integers in  *)
(* tenths of a degree (FScale), the sensor's Celsius reading is an integer *)
(* in eighteenths of a degree (CScale), so that 9/5*C+32 is exact.  The    *)
(* filter's average sum/len is kept as the pair <<sum, len>> and compared  *)
(* by cross-multiplication.  Floating-point rounding is not modelled.      *)
(*                                                                         *)
(* Threads.  "loop" runs manageMyDisplay; "btn" runs one button handler at *)
(* a time.  A step of a thread is one access to shared state (a field of   *)
(* the machine, the filter, a light, the lock) together with the local     *)
(* computation around it; pc, stack, acc, x, temp, st are the thread's     *)
(* program counter, return addresses and local values.                     *)
(***************************************************************************)
EXTENDS Integers, Sequences, FiniteSets, TLC

VARIABLES
    mode,           \* current_state.id: "off", "heat", "cool"
    baseSetPoint,   \* TemperatureMachine.baseSetPoint
    manualOffset,   \* TemperatureMachine.manualOffset
    setPoint,       \* TemperatureMachine.setPoint (the effective setpoint)
    buf,            \* ma.buf, oldest sample first (tenths of a degree F)
    sum,            \* ma.sum
    redLight,       \* PWMLED(18): "off", "solid", "pulse"
    blueLight,      \* PWMLED(23)
    i2c_lock,       \* holder of i2c_lock: "free", "loop", "btn"
    thSensor,       \* TRUE when the sensor was found at start (thSensor is not None)
    now,            \* the minute of the day, hour*60 + minute, last read from the clock
    sched_minutes,  \* _schedule_minutes
    sched_values,   \* _schedule_values
    counter,        \* manageMyDisplay: counter
    altCounter,     \* manageMyDisplay: altCounter
    pc,             \* per thread: the next step
    stack,          \* per thread: return addresses of the calls in progress
    acc,            \* per thread: value loaded from a field and not yet stored
    x,              \* per thread: <<t_f>> read by getFahrenheit, <<>> for None
    temp,           \* per thread: <<sum, len>> returned by the filter, <<>> for None
    st,             \* per thread: the state id read by updateLights
    dec,            \* per thread: the output chosen by updateLights, not yet applied
    endDisplay,     \* TemperatureMachine.endDisplay
    main,           \* the main thread: "wait" in sleep(30), then the steps of the
                    \* KeyboardInterrupt handler ("grace" or "grace_behind" in
                    \* sleep(1), "red", "blue"), "done", and "exited"
    lcd,            \* calls of screen.cleanupDisplay() so far
    env,            \* what the surroundings may do in this run (see Init)
    hist            \* bookkeeping: what has happened so far (see NoHistory)

shared == <<mode, baseSetPoint, manualOffset, setPoint, buf, sum, redLight,
            blueLight, i2c_lock>>
config == <<thSensor, sched_minutes, sched_values, env>>
locals == <<pc, stack, acc, x, temp, st, dec>>
shutdown == <<endDisplay, main, lcd>>
vars == <<shared, config, shutdown, now, counter, altCounter, locals, hist>>

Threads == {"loop", "btn"}
Modes == {"off", "heat", "cool"}

(***************************************************************************)
(* Bounds of the model.                                                    *)
(***************************************************************************)
\* Button events dispatched in one behaviour.
MaxPresses == 3
\* MA_WINDOW is 10 in the source; the filter is run with a small window so
\* that the buffer fills and evicts inside the bounds.
MA_WINDOW == 2

(***************************************************************************)
(* Program constants.                                                      *)
(***************************************************************************)
HYSTERESIS_F == 1
STATUS_PERIOD_S == 30
SCHEDULE_ENABLED == TRUE
\* altCounter < 6 shows the temperature; altCounter >= 11 closes the window.
ALT_LABEL_FROM == 6
ALT_WRAP_AT == 11
\* baseSetPoint = 72, setPoint = 72 at class level.
INITIAL_SETPOINT == 72
\* Scale of Fahrenheit values (tenths) and of the sensor's Celsius values.
FScale == 10
CScale == 18

\* SCHEDULE_ENTRIES: "HH:MM" is the digit string <<H, H, M, M>>.
SCHEDULE_ENTRIES ==
    << [start |-> <<0, 6, 0, 0>>, setpoint |-> 70],
       [start |-> <<2, 2, 0, 0>>, setpoint |-> 65] >>

\* _hhmm_to_minutes: int(h) * 60 + int(m)
hhmm_to_minutes(hhmm) ==
    (10 * hhmm[1] + hhmm[2]) * 60 + (10 * hhmm[3] + hhmm[4])

\* String comparison of two "HH:MM" strings (the key of sorted()).
RECURSIVE StrLess(_, _)
StrLess(a, b) ==
    IF a = <<>> \/ b = <<>> THEN a = <<>> /\ b # <<>>
    ELSE IF Head(a) # Head(b) THEN Head(a) < Head(b)
    ELSE StrLess(Tail(a), Tail(b))

\* sorted(SCHEDULE_ENTRIES, key=lambda e: e["start"]): ascending by the key,
\* entries with equal keys in their original order.
SortedEntries(entries) ==
    LET n == Len(entries)
        Perms == {p \in [1..n -> 1..n] : \A i, j \in 1..n : i # j => p[i] # p[j]}
        p == CHOOSE q \in Perms :
                \A i, j \in 1..n : i < j =>
                    \/ StrLess(entries[q[i]].start, entries[q[j]].start)
                    \/ /\ entries[q[i]].start = entries[q[j]].start
                       /\ q[i] < q[j]
    IN  [i \in 1..n |-> entries[p[i]]]

\* The module-level loop that fills _schedule_minutes and _schedule_values.
schedule_minutes(entries) ==
    [i \in 1..Len(entries) |-> hhmm_to_minutes(SortedEntries(entries)[i].start)]
schedule_values(entries) ==
    [i \in 1..Len(entries) |-> SortedEntries(entries)[i].setpoint]

\* bisect_left in place of bisect_right: an entry that starts at this very
\* minute is not yet counted.
RECURSIVE bisect_left_loop(_, _, _, _)
bisect_left_loop(a, v, lo, hi) ==
    IF lo < hi
    THEN LET mid == (lo + hi) \div 2
         IN  IF a[mid + 1] < v
             THEN bisect_left_loop(a, v, mid + 1, hi)
             ELSE bisect_left_loop(a, v, lo, mid)
    ELSE lo
bisect_left(a, v) == bisect_left_loop(a, v, 0, Len(a))

\* bisect.bisect_right(a, v): binary search, lo = 0, hi = len(a).
RECURSIVE bisect_loop(_, _, _, _)
bisect_loop(a, v, lo, hi) ==
    IF lo < hi
    THEN LET mid == (lo + hi) \div 2
         IN  IF v < a[mid + 1]      \* a[mid], 0-based
             THEN bisect_loop(a, v, lo, mid)
             ELSE bisect_loop(a, v, mid + 1, hi)
    ELSE lo
bisect_right(a, v) == bisect_loop(a, v, 0, Len(a))

\* _refreshEffectiveSetPoint, the schedule part: the base setpoint at
\* `minutes`; idx < 0 wraps to the last entry.
ScheduleBase(minutes_, values_, minutes) ==
    LET idx == bisect_right(minutes_, minutes) - 1
    IN  IF idx < 0 THEN values_[Len(values_)] ELSE values_[idx + 1]

\* getFahrenheit: ((9 / 5) * t) + 32, t in 1/CScale degrees C, result in
\* 1/FScale degrees F.
Fahrenheit(t) == ((9 * FScale * t) \div (5 * CScale)) + 32 * FScale

\* MovingAverage.__init__: self.window = max(1, int(window))
MovingAverage(w) == IF w > 1 THEN w ELSE 1
\* ma = MovingAverage(MA_WINDOW)
window == MovingAverage(MA_WINDOW)

(***************************************************************************)
(* The filter and the light policy as functions of their inputs.           *)
(***************************************************************************)
\* The test len(self.buf) >= self.window in place of >: the buffer is cut
\* back one sample too early.
pushEvictsEarly(w, b, s, v) ==
    LET b1 == Append(b, v)
        s1 == s + v
    IN  IF Len(b1) >= w
        THEN [buf |-> Tail(b1), sum |-> s1 - Head(b1)]
        ELSE [buf |-> b1, sum |-> s1]

\* MovingAverage.push run without interruption on a filter of window w:
\* append, add, evict the oldest sample when the buffer exceeds the window.
push(w, b, s, v) ==
    LET b1 == Append(b, v)
        s1 == s + v
    IN  IF Len(b1) > w
        THEN [buf |-> Tail(b1), sum |-> s1 - Head(b1)]
        ELSE [buf |-> b1, sum |-> s1]

\* self.ma.push(v): the filter of this run has window env.window.
MAPush(b, s, v) == push(env.window, b, s, v)

\* MovingAverage.value: sum / len(buf), or None for an empty buffer.
MAValue(b, s) == IF Len(b) > 0 THEN <<s, Len(b)>> ELSE <<>>

\* avg < bound and avg > bound for avg = <<sum, len>> and a bound in
\* tenths of a degree (len > 0).
AvgLess(avg, bound) == avg[1] < bound * avg[2]
AvgGreater(avg, bound) == avg[1] > bound * avg[2]

\* floor(temp_sm) in whole degrees F.
FloorF(avg) == avg[1] \div (avg[2] * FScale)

\* The display's "--" in place of "NA" for a missing reading.
setupSerialOutputDashes(state, temp_sm, sp) ==
    <<state, IF temp_sm = <<>> THEN "--" ELSE ToString(FloorF(temp_sm)), ToString(sp)>>

\* setupSerialOutput: f"{state},{temp_f},{self.setPoint}" as its three
\* fields, temp_f = floor(temp_sm), or "NA" without a reading.
setupSerialOutput(state, temp_sm, sp) ==
    <<state, IF temp_sm = <<>> THEN "NA" ELSE ToString(FloorF(temp_sm)), ToString(sp)>>

\* on() called where off() is meant.
LedOn == "solid"

\* PWMLED.off()
LedOff == "off"

\* temp <= setPoint - HYSTERESIS_F: the edge of the band pulses too.
HeatOutputAtEdge(t_sm, sp) ==
    IF ~AvgGreater(t_sm, (sp - HYSTERESIS_F) * FScale) THEN "pulse" ELSE "solid"

\* temp >= setPoint + HYSTERESIS_F: the edge of the band pulses too.
CoolOutputAtEdge(t_sm, sp) ==
    IF ~AvgLess(t_sm, (sp + HYSTERESIS_F) * FScale) THEN "pulse" ELSE "solid"

\* updateLights, state "heat" with a reading:
\* temp < setPoint - HYSTERESIS_F pulses the red light, else solid.
HeatOutput(t_sm, sp) ==
    IF AvgLess(t_sm, (sp - HYSTERESIS_F) * FScale) THEN "pulse" ELSE "solid"

\* updateLights, state "cool" with a reading:
\* temp > setPoint + HYSTERESIS_F pulses the blue light, else solid.
CoolOutput(t_sm, sp) ==
    IF AvgGreater(t_sm, (sp + HYSTERESIS_F) * FScale) THEN "pulse" ELSE "solid"

\* Without a reading the filter's last average is used instead of the
\* steady light.
LightOutputLastAverage(state, t_sm, sp) ==
    LET t_last == IF t_sm = <<>> THEN MAValue(buf, sum) ELSE t_sm
    IN  IF t_last = <<>> THEN "solid"
        ELSE IF state = "heat" THEN HeatOutput(t_last, sp)
        ELSE CoolOutput(t_last, sp)

\* updateLights after the state is known not to be "off": the output for
\* the state's light; without a reading it is solid.
LightOutput(state, t_sm, sp) ==
    IF t_sm = <<>> THEN "solid"
    ELSE IF state = "heat" THEN HeatOutput(t_sm, sp)
    ELSE CoolOutput(t_sm, sp)

\* A cycle whose last arrow goes back to heat instead of off.
CycleTransitionsNoOff == {<<"off", "heat">>, <<"heat", "cool">>, <<"cool", "heat">>}

\* cycle = off.to(heat) | heat.to(cool) | cool.to(off)
CycleTransitions == {<<"off", "heat">>, <<"heat", "cool">>, <<"cool", "off">>}
CanCycle(m) == \E tr \in CycleTransitions : tr[1] = m
CycleTarget(m) == (CHOOSE tr \in CycleTransitions : tr[1] = m)[2]

(***************************************************************************)
(* Control flow of a thread.                                               *)
(***************************************************************************)
Other(t) == IF t = "loop" THEN "btn" ELSE "loop"

\* A thread is at rest between ticks (the loop, in sleep) or between
\* button events (the callback thread).
AtRest(t) == IF t = "loop" THEN pc[t] = "top" ELSE pc[t] = "idle"

\* The process runs until the main thread has left its handler and the loop
\* thread (not a daemon) has returned.
Alive == main # "exited"

\* The scheduler may run t now: any time when threads preempt each other,
\* else only while the other thread is at rest.
Runs(t) == Alive /\ (env.preempt \/ AtRest(Other(t)))

Jump(t, p) == pc' = [pc EXCEPT ![t] = p] /\ UNCHANGED stack
Enter(t, p, conts) ==
    /\ pc' = [pc EXCEPT ![t] = p]
    /\ stack' = [stack EXCEPT ![t] = conts \o stack[t]]
Return(t) ==
    /\ pc' = [pc EXCEPT ![t] = Head(stack[t])]
    /\ stack' = [stack EXCEPT ![t] = Tail(stack[t])]

\* updateLights: _refreshEffectiveSetPoint, _getSmoothedFahrenheit, the
\* lights; then continue at ret.  The first step is "r_sched".
UpdateLights(ret) == <<"s_acq", "u_red", ret>>

(***************************************************************************)
(* Bookkeeping (hist): not program state, it records what has happened.    *)
(*   mode, inc, dec  button events dispatched so far, by kind              *)
(*   cur[t]          while t is between reading the state (line 434) and   *)
(*                   reading self.setPoint (lines 444, 450): the setpoints *)
(*                   that were in force together with the state t read     *)
(*   pushed          the samples pushed into the filter, oldest first, in  *)
(*                   the runs that keep them (env.trace)                   *)
(*   ticks, emitted, the number of the current tick, the numbers of the    *)
(*   failed          ticks that wrote a status line and of the ticks whose *)
(*                   write failed, in the runs that count their ticks      *)
(*                   (env.maxTicks > 0)                                    *)
(*   line            the status line written to the serial port in this    *)
(*                   tick, as <<state, temp, setpoint>>; <<>> when none    *)
(*   reads           the sensor readings the loop has taken in the tick in *)
(*                   progress                                              *)
(*   tries           the calls of getFahrenheit the loop has made in the   *)
(*                   tick in progress                                      *)
(*   stored          the last insert into the database went through        *)
(*   lit[t]          the lights have been set for the current mode in t's  *)
(*                   tick or handler, the one in progress or the last one  *)
(*                   (updateLights got to its test of the state, or        *)
(*                   on_enter_off ran)                                     *)
(*   line2           lcd_line_2 as the loop composed it in the tick in     *)
(*                   progress or the last one: its kind, and its fields in *)
(*                   the runs that keep them (env.show)                    *)
(*   shown           the second lines passed to screen.updateScreen in     *)
(*                   that tick, in order                                   *)
(***************************************************************************)
NoHistory ==
    [mode |-> 0, inc |-> 0, dec |-> 0, cur |-> [t \in Threads |-> {}],
     pushed |-> <<>>, ticks |-> 0, emitted |-> {}, line |-> <<>>, reads |-> 0,
     lit |-> [t \in Threads |-> FALSE], line2 |-> <<>>, shown |-> <<>>,
     tries |-> 0, failed |-> {}, stored |-> TRUE, quiet |-> 0]

Presses == hist.mode + hist.inc + hist.dec

\* hist.quiet once a tick begins: the ticks begun since the last button
\* event of the run, counted up to one display window, in the runs that
\* count them.
QuietTicks ==
    IF env.quiet /\ pc["btn"] = "idle" /\ Presses = env.presses /\ hist.quiet < ALT_WRAP_AT - 1
    THEN hist.quiet + 1 ELSE hist.quiet

\* hist.cur once the state is m and the setpoint sp: sp joins the record of
\* every thread that waits to read the setpoint and read m as the state.
SeenWith(m, sp) ==
    [t \in Threads |->
        IF pc[t] = "u_decide" /\ st[t] = m
        THEN hist.cur[t] \cup {sp} ELSE hist.cur[t]]

(***************************************************************************)
(* _refreshEffectiveSetPoint                                               *)
(***************************************************************************)
\* The offset left out of the sum.
AddNoOffset(base, offset) == base

\* int(self.baseSetPoint + self.manualOffset)
AddOffset(base, offset) == base + offset

\* The lookup made whenever the table has entries, SCHEDULE_ENABLED or not.
RefreshScheduleNonEmpty(t) ==
    /\ pc[t] = "r_sched" /\ Runs(t)
    /\ IF Len(sched_minutes) > 0
       THEN /\ \E m \in env.minutes :
                /\ now' = m
                /\ acc' = [acc EXCEPT ![t] = ScheduleBase(sched_minutes, sched_values, m)]
            /\ Jump(t, "r_base")
       ELSE /\ UNCHANGED <<acc, now>>
            /\ Jump(t, "r_load")
    /\ UNCHANGED <<shared, config, shutdown, counter, altCounter, x, temp, st, dec, hist>>

\* now = datetime.now(); minutes; idx; base.  The clock is looked at here
\* and nowhere else: it shows one of the minutes the run observes.
\* env.scheduled is the value of SCHEDULE_ENABLED in the build that runs.
RefreshSchedule(t) ==
    /\ pc[t] = "r_sched" /\ Runs(t)
    /\ IF env.scheduled /\ Len(sched_minutes) > 0
       THEN /\ \E m \in env.minutes :
                /\ now' = m
                /\ acc' = [acc EXCEPT ![t] = ScheduleBase(sched_minutes, sched_values, m)]
            /\ Jump(t, "r_base")
       ELSE /\ UNCHANGED <<acc, now>>
            /\ Jump(t, "r_load")
    /\ UNCHANGED <<shared, config, shutdown, counter, altCounter, x, temp, st, dec, hist>>

\* self.baseSetPoint = int(base)
RefreshBase(t) ==
    /\ pc[t] = "r_base" /\ Runs(t)
    /\ baseSetPoint' = acc[t]
    /\ acc' = [acc EXCEPT ![t] = 0]
    /\ Jump(t, "r_load")
    /\ UNCHANGED <<mode, manualOffset, setPoint, buf, sum, redLight, blueLight,
                   i2c_lock, config, shutdown, now, counter, altCounter, x, temp, st, dec, hist>>

\* self.baseSetPoint + self.manualOffset: the first operand is loaded
RefreshLoad(t) ==
    /\ pc[t] = "r_load" /\ Runs(t)
    /\ acc' = [acc EXCEPT ![t] = baseSetPoint]
    /\ Jump(t, "r_add")
    /\ UNCHANGED <<shared, config, shutdown, now, counter, altCounter, x, temp, st, dec, hist>>

\* ... the second operand is loaded and added
RefreshAdd(t) ==
    /\ pc[t] = "r_add" /\ Runs(t)
    /\ acc' = [acc EXCEPT ![t] = AddOffset(acc[t], manualOffset)]
    /\ Jump(t, "r_store")
    /\ UNCHANGED <<shared, config, shutdown, now, counter, altCounter, x, temp, st, dec, hist>>

\* self.setPoint = int(...)
RefreshStore(t) ==
    /\ pc[t] = "r_store" /\ Runs(t)
    /\ setPoint' = acc[t]
    /\ acc' = [acc EXCEPT ![t] = 0]
    /\ hist' = [hist EXCEPT !.cur = SeenWith(mode, acc[t])]
    /\ Return(t)
    /\ UNCHANGED <<mode, baseSetPoint, manualOffset, buf, sum, redLight, blueLight,
                   i2c_lock, config, shutdown, now, counter, altCounter, x, temp, st, dec>>

(***************************************************************************)
(* getFahrenheit and _getSmoothedFahrenheit                                *)
(***************************************************************************)
\* if thSensor is None: return None; else enter `with i2c_lock`
SensorAcquire(t) ==
    /\ pc[t] = "s_acq" /\ Runs(t)
    /\ hist' = [hist EXCEPT !.tries = IF t = "loop" THEN @ + 1 ELSE @]
    /\ IF ~thSensor
       THEN /\ temp' = [temp EXCEPT ![t] = <<>>]
            /\ Return(t)
            /\ UNCHANGED i2c_lock
       ELSE /\ i2c_lock = "free"
            /\ i2c_lock' = t
            /\ Jump(t, "s_read")
            /\ UNCHANGED temp
    /\ UNCHANGED <<mode, baseSetPoint, manualOffset, setPoint, buf, sum, redLight,
                   blueLight, config, shutdown, now, counter, altCounter, acc, x, st, dec>>

\* A read that raises also empties the filter.
SensorReadFaultResets(t) ==
    /\ pc[t] = "s_read" /\ Runs(t)
    /\ i2c_lock' = "free"
    /\ \/ \E c \in env.celsius :
            /\ x' = [x EXCEPT ![t] = <<Fahrenheit(c)>>]
            /\ hist' = [hist EXCEPT !.reads = IF t = "loop" THEN @ + 1 ELSE @]
            /\ Jump(t, "p_push")
            /\ UNCHANGED <<temp, buf, sum>>
       \/ /\ env.faults
          /\ temp' = [temp EXCEPT ![t] = <<>>]
          /\ buf' = <<>>
          /\ sum' = 0
          /\ Return(t)
          /\ UNCHANGED <<x, hist>>
    /\ UNCHANGED <<mode, baseSetPoint, manualOffset, setPoint, redLight,
                   blueLight, config, shutdown, now, counter, altCounter, acc, st, dec>>

\* acquire() and release() around the read in place of the with block: a
\* read that raises skips the release.
SensorReadLeaksLock(t) ==
    /\ pc[t] = "s_read" /\ Runs(t)
    /\ \/ \E c \in env.celsius :
            /\ i2c_lock' = "free"
            /\ x' = [x EXCEPT ![t] = <<Fahrenheit(c)>>]
            /\ hist' = [hist EXCEPT !.reads = IF t = "loop" THEN @ + 1 ELSE @]
            /\ Jump(t, "p_push")
            /\ UNCHANGED temp
       \/ /\ env.faults
          /\ temp' = [temp EXCEPT ![t] = <<>>]
          /\ Return(t)
          /\ UNCHANGED <<x, hist, i2c_lock>>
    /\ UNCHANGED <<mode, baseSetPoint, manualOffset, setPoint, buf, sum, redLight,
                   blueLight, config, shutdown, now, counter, altCounter, acc, st, dec>>

\* t = thSensor.temperature, leaving the with block: a reading, converted
\* to Fahrenheit, or an exception, which makes _getSmoothedFahrenheit
\* return None.  The lock is released either way.
SensorRead(t) ==
    /\ pc[t] = "s_read" /\ Runs(t)
    /\ i2c_lock' = "free"
    /\ \/ \E c \in env.celsius :
            /\ x' = [x EXCEPT ![t] = <<Fahrenheit(c)>>]
            /\ hist' = [hist EXCEPT !.reads = IF t = "loop" THEN @ + 1 ELSE @]
            /\ Jump(t, "p_push")
            /\ UNCHANGED temp
       \/ /\ env.faults
          /\ temp' = [temp EXCEPT ![t] = <<>>]
          /\ Return(t)
          /\ UNCHANGED <<x, hist>>
    /\ UNCHANGED <<mode, baseSetPoint, manualOffset, setPoint, buf, sum, redLight,
                   blueLight, config, shutdown, now, counter, altCounter, acc, st, dec>>

\* return self.ma.push(t_f)
Push(t) ==
    /\ pc[t] = "p_push" /\ Runs(t)
    /\ LET r == MAPush(buf, sum, x[t][1])
       IN  /\ buf' = r.buf
           /\ sum' = r.sum
           /\ temp' = [temp EXCEPT ![t] = MAValue(r.buf, r.sum)]
    /\ hist' = [hist EXCEPT !.pushed = IF env.trace THEN Append(@, x[t][1]) ELSE @]
    /\ x' = [x EXCEPT ![t] = <<>>]
    /\ Return(t)
    /\ UNCHANGED <<mode, baseSetPoint, manualOffset, setPoint, redLight, blueLight,
                   i2c_lock, config, shutdown, now, counter, altCounter, acc, st, dec>>

(***************************************************************************)
(* MovingAverage.push and value step by step, one access to the filter's   *)
(* fields per step, as two threads inside push interleave.  A thread       *)
(* enters at "p_push" with its sample in x; acc holds the sum it loaded.   *)
(***************************************************************************)
\* self.buf.append(x)
PushAppend(t) ==
    /\ pc[t] = "p_push" /\ Runs(t)
    /\ buf' = Append(buf, x[t][1])
    /\ Jump(t, "p_add")
    /\ UNCHANGED <<mode, baseSetPoint, manualOffset, setPoint, sum, redLight, blueLight,
                   i2c_lock, config, shutdown, now, counter, altCounter, acc, x, temp, st, dec, hist>>

\* self.sum += x: the sum is loaded
PushAddLoad(t) ==
    /\ pc[t] = "p_add" /\ Runs(t)
    /\ acc' = [acc EXCEPT ![t] = sum]
    /\ Jump(t, "p_addst")
    /\ UNCHANGED <<shared, config, shutdown, now, counter, altCounter, x, temp, st, dec, hist>>

\* ... and stored with x added
PushAddStore(t) ==
    /\ pc[t] = "p_addst" /\ Runs(t)
    /\ sum' = acc[t] + x[t][1]
    /\ acc' = [acc EXCEPT ![t] = 0]
    /\ x' = [x EXCEPT ![t] = <<>>]
    /\ Jump(t, "p_len")
    /\ UNCHANGED <<mode, baseSetPoint, manualOffset, setPoint, buf, redLight, blueLight,
                   i2c_lock, config, shutdown, now, counter, altCounter, temp, st, dec, hist>>

\* if len(self.buf) > self.window
PushLen(t) ==
    /\ pc[t] = "p_len" /\ Runs(t)
    /\ Jump(t, IF Len(buf) > env.window THEN "p_sub" ELSE "p_val")
    /\ UNCHANGED <<shared, config, shutdown, now, counter, altCounter, acc, x, temp, st, dec, hist>>

\* self.sum -= self.buf.popleft(): the sum is loaded
PushSubLoad(t) ==
    /\ pc[t] = "p_sub" /\ Runs(t)
    /\ acc' = [acc EXCEPT ![t] = sum]
    /\ Jump(t, "p_pop")
    /\ UNCHANGED <<shared, config, shutdown, now, counter, altCounter, x, temp, st, dec, hist>>

\* ... the oldest sample leaves the buffer
PushPopleft(t) ==
    /\ pc[t] = "p_pop" /\ Runs(t)
    /\ x' = [x EXCEPT ![t] = <<Head(buf)>>]
    /\ buf' = Tail(buf)
    /\ Jump(t, "p_subst")
    /\ UNCHANGED <<mode, baseSetPoint, manualOffset, setPoint, sum, redLight, blueLight,
                   i2c_lock, config, shutdown, now, counter, altCounter, acc, temp, st, dec, hist>>

\* ... and the sum is stored with it subtracted
PushSubStore(t) ==
    /\ pc[t] = "p_subst" /\ Runs(t)
    /\ sum' = acc[t] - x[t][1]
    /\ acc' = [acc EXCEPT ![t] = 0]
    /\ x' = [x EXCEPT ![t] = <<>>]
    /\ Jump(t, "p_val")
    /\ UNCHANGED <<mode, baseSetPoint, manualOffset, setPoint, buf, redLight, blueLight,
                   i2c_lock, config, shutdown, now, counter, altCounter, temp, st, dec, hist>>

\* value(): ... if self.buf else None
PushValue(t) ==
    /\ pc[t] = "p_val" /\ Runs(t)
    /\ IF Len(buf) > 0
       THEN Jump(t, "p_div") /\ UNCHANGED temp
       ELSE temp' = [temp EXCEPT ![t] = <<>>] /\ Return(t)
    /\ UNCHANGED <<shared, config, shutdown, now, counter, altCounter, acc, x, st, dec, hist>>

\* value(): self.sum / len(self.buf), returned by push
PushDivide(t) ==
    /\ pc[t] = "p_div" /\ Runs(t)
    /\ temp' = [temp EXCEPT ![t] = <<sum, Len(buf)>>]
    /\ Return(t)
    /\ UNCHANGED <<shared, config, shutdown, now, counter, altCounter, acc, x, st, dec, hist>>

(***************************************************************************)
(* updateLights, after the refresh and the reading                         *)
(***************************************************************************)
\* updateLights without its redLight.off().
LightsRedOffSkipped(t) ==
    /\ pc[t] = "u_red" /\ Runs(t)
    /\ Jump(t, "u_blue")
    /\ UNCHANGED <<shared, config, shutdown, now, counter, altCounter, acc, x, temp, st, dec, hist>>

\* redLight.off()
LightsRedOff(t) ==
    /\ pc[t] = "u_red" /\ Runs(t)
    /\ redLight' = LedOff
    /\ Jump(t, "u_blue")
    /\ UNCHANGED <<mode, baseSetPoint, manualOffset, setPoint, buf, sum, blueLight,
                   i2c_lock, config, shutdown, now, counter, altCounter, acc, x, temp, st, dec, hist>>

\* blueLight.off()
LightsBlueOff(t) ==
    /\ pc[t] = "u_blue" /\ Runs(t)
    /\ blueLight' = LedOff
    /\ Jump(t, "u_state")
    /\ UNCHANGED <<mode, baseSetPoint, manualOffset, setPoint, buf, sum, redLight,
                   i2c_lock, config, shutdown, now, counter, altCounter, acc, x, temp, st, dec, hist>>

\* state = self.current_state.id; if state == "off": return
LightsState(t) ==
    /\ pc[t] = "u_state" /\ Runs(t)
    /\ hist' = [hist EXCEPT !.cur[t] = IF mode = "off" THEN @ ELSE {setPoint},
                             !.lit[t] = TRUE]
    /\ IF mode = "off"
       THEN /\ temp' = [temp EXCEPT ![t] = <<>>]
            /\ Return(t)
            /\ UNCHANGED st
       ELSE /\ st' = [st EXCEPT ![t] = mode]
            /\ Jump(t, "u_decide")
            /\ UNCHANGED temp
    /\ UNCHANGED <<shared, config, shutdown, now, counter, altCounter, acc, x, dec>>

\* the tests on temp, reading self.setPoint when there is a reading
LightsDecide(t) ==
    /\ pc[t] = "u_decide" /\ Runs(t)
    /\ dec' = [dec EXCEPT ![t] = LightOutput(st[t], temp[t], setPoint)]
    /\ hist' = [hist EXCEPT !.cur[t] = {}]
    /\ Jump(t, "u_set")
    /\ UNCHANGED <<shared, config, shutdown, now, counter, altCounter, acc, x, temp, st>>

\* redLight / blueLight: .pulse(...) or .value = 1.0
LightsSet(t) ==
    /\ pc[t] = "u_set" /\ Runs(t)
    /\ IF st[t] = "heat"
       THEN redLight' = dec[t] /\ UNCHANGED blueLight
       ELSE blueLight' = dec[t] /\ UNCHANGED redLight
    /\ st' = [st EXCEPT ![t] = "off"]
    /\ dec' = [dec EXCEPT ![t] = "off"]
    /\ temp' = [temp EXCEPT ![t] = <<>>]
    /\ Return(t)
    /\ UNCHANGED <<mode, baseSetPoint, manualOffset, setPoint, buf, sum,
                   i2c_lock, config, shutdown, now, counter, altCounter, acc, x, hist>>

(***************************************************************************)
(* Persistence: ThermostatDB.log_event and log_reading.  An insert goes    *)
(* through or fails (no connection, a locked or broken database file) in   *)
(* the runs that let it fail (env.db); the call returns to its caller or   *)
(* raises.                                                                 *)
(***************************************************************************)
DbOutcomes == IF env.db THEN BOOLEAN ELSE {TRUE}

\* The insert outside a try block: a failure raises.
log_eventRaises(ok) == IF ok THEN "returns" ELSE "raises"

\* try: ... INSERT ... commit() except Exception: (a message under DEBUG)
log_event(ok) == "returns"
log_reading(ok) == "returns"

(***************************************************************************)
(* manageMyDisplay: one tick of the loop                                   *)
(***************************************************************************)
\* lcd_line_2 of a tick that shows the temperature, f"Temp:{t_show}F
\* Set:{self.setPoint}F", and of a tick that shows the state label, as
\* fields (both fit the 16 columns for readings and setpoints of two
\* digits); the runs that do not keep the fields keep the kind.
TempLine(temp_sm, sp) ==
    IF env.show
    THEN <<"Temp", IF temp_sm = <<>> THEN "--" ELSE ToString(FloorF(temp_sm)), ToString(sp)>>
    ELSE <<"Temp">>
LabelLine(state) == IF env.show THEN <<"Label", state>> ELSE <<"Label">>

\* screen.updateScreen(...), then the test of counter: a status tick goes
\* on to the serial output, any other tick counts and sleeps.
EndOfTick(lcd_line_2) ==
    IF (counter % STATUS_PERIOD_S) = 0
    THEN /\ Jump("loop", "ser")
         /\ hist' = [hist EXCEPT !.line2 = lcd_line_2, !.shown = Append(@, lcd_line_2)]
         /\ UNCHANGED counter
    ELSE /\ counter' = counter + 1
         /\ hist' = [hist EXCEPT !.line2 = lcd_line_2, !.shown = Append(@, lcd_line_2),
                                  !.reads = 0, !.tries = 0]
         /\ Jump("loop", "top")

\* while True: the loop does not look at the flag.
LoopTopIgnoresFlag ==
    /\ pc["loop"] = "top" /\ Runs("loop")
    /\ env.maxTicks > 0 => hist.ticks < env.maxTicks
    /\ hist' = [hist EXCEPT !.ticks = IF env.maxTicks > 0 THEN @ + 1 ELSE @,
                             !.lit["loop"] = FALSE, !.line2 = <<>>, !.shown = <<>>,
                             !.quiet = QuietTicks]
    /\ Enter("loop", "r_sched",
             IF altCounter < ALT_LABEL_FROM THEN <<"s_acq", "show">> ELSE <<"label">>)
    /\ UNCHANGED <<shared, config, shutdown, now, counter, altCounter, acc, x, temp, st, dec>>

\* The branch on altCounter with <= in place of <.
LoopTopLateLabel ==
    /\ pc["loop"] = "top" /\ Runs("loop")
    /\ ~endDisplay
    /\ env.maxTicks > 0 => hist.ticks < env.maxTicks
    /\ hist' = [hist EXCEPT !.ticks = IF env.maxTicks > 0 THEN @ + 1 ELSE @,
                             !.lit["loop"] = FALSE, !.line2 = <<>>, !.shown = <<>>,
                             !.quiet = QuietTicks]
    /\ Enter("loop", "r_sched",
             IF altCounter <= ALT_LABEL_FROM THEN <<"s_acq", "show">> ELSE <<"label">>)
    /\ UNCHANGED <<shared, config, shutdown, now, counter, altCounter, acc, x, temp, st, dec>>

\* top of the while loop: self._refreshEffectiveSetPoint(), then the
\* branch on altCounter
LoopTop ==
    /\ pc["loop"] = "top" /\ Runs("loop")
    /\ ~endDisplay
    /\ env.maxTicks > 0 => hist.ticks < env.maxTicks
    /\ hist' = [hist EXCEPT !.ticks = IF env.maxTicks > 0 THEN @ + 1 ELSE @,
                             !.lit["loop"] = FALSE, !.line2 = <<>>, !.shown = <<>>,
                             !.quiet = QuietTicks]
    /\ Enter("loop", "r_sched",
             IF altCounter < ALT_LABEL_FROM THEN <<"s_acq", "show">> ELSE <<"label">>)
    /\ UNCHANGED <<shared, config, shutdown, now, counter, altCounter, acc, x, temp, st, dec>>

\* The line shows self.baseSetPoint in place of self.setPoint.
LoopShowBase ==
    /\ pc["loop"] = "show" /\ Runs("loop")
    /\ temp' = [temp EXCEPT !["loop"] = <<>>]
    /\ altCounter' = altCounter + 1
    /\ EndOfTick(TempLine(temp["loop"], baseSetPoint))
    /\ UNCHANGED <<shared, config, shutdown, now, acc, x, st, dec>>

\* altCounter < 6: the line "Temp:..F Set:..F" from temp_sm and self.setPoint
LoopShow ==
    /\ pc["loop"] = "show" /\ Runs("loop")
    /\ temp' = [temp EXCEPT !["loop"] = <<>>]
    /\ altCounter' = altCounter + 1
    /\ EndOfTick(TempLine(temp["loop"], setPoint))
    /\ UNCHANGED <<shared, config, shutdown, now, acc, x, st, dec>>

\* The tick that closes the window without its call of updateLights.
LoopLabelNoUpdate ==
    /\ pc["loop"] = "label" /\ Runs("loop")
    /\ altCounter' = IF altCounter + 1 >= ALT_WRAP_AT THEN 1 ELSE altCounter + 1
    /\ EndOfTick(LabelLine(mode))
    /\ UNCHANGED <<shared, config, shutdown, now, stack, acc, x, temp, st, dec>>

\* updateLights called on every tick that shows the label.
LoopLabelEveryLabelTick ==
    /\ pc["loop"] = "label" /\ Runs("loop")
    /\ altCounter' = altCounter + 1
    /\ Enter("loop", "r_sched", UpdateLights("wrap"))
    /\ hist' = [hist EXCEPT !.line2 = LabelLine(mode)]
    /\ UNCHANGED <<shared, config, shutdown, now, counter, acc, x, temp, st, dec>>

\* else: the line with the state label; the tick that closes the window
\* calls updateLights
LoopLabel ==
    /\ pc["loop"] = "label" /\ Runs("loop")
    /\ altCounter' = altCounter + 1
    /\ IF altCounter + 1 >= ALT_WRAP_AT
       THEN /\ Enter("loop", "r_sched", UpdateLights("wrap"))
            /\ hist' = [hist EXCEPT !.line2 = LabelLine(mode)]
            /\ UNCHANGED counter
       ELSE /\ EndOfTick(LabelLine(mode))
            /\ UNCHANGED stack
    /\ UNCHANGED <<shared, config, shutdown, now, acc, x, temp, st, dec>>

\* altCounter = 1 after updateLights
LoopWrap ==
    /\ pc["loop"] = "wrap" /\ Runs("loop")
    /\ altCounter' = 1
    /\ EndOfTick(hist.line2)
    /\ UNCHANGED <<shared, config, shutdown, now, acc, x, temp, st, dec>>

\* setupSerialOutput: state = self.current_state.id, then the reading
LoopSerial ==
    /\ pc["loop"] = "ser" /\ Runs("loop")
    /\ st' = [st EXCEPT !["loop"] = mode]
    /\ Enter("loop", "s_acq", <<"ser_fmt">>)
    /\ UNCHANGED <<shared, config, shutdown, now, counter, altCounter, acc, x, temp, dec, hist>>

\* A failed write leaves the counter as it is.
LoopSerialWriteKeepsCounter ==
    /\ pc["loop"] = "ser_fmt" /\ Runs("loop")
    /\ st' = [st EXCEPT !["loop"] = "off"]
    /\ \/ /\ Enter("loop", "s_acq", <<"log">>)
          /\ hist' = [hist EXCEPT
                        !.emitted = IF env.maxTicks > 0 THEN @ \cup {hist.ticks} ELSE @,
                        !.line = setupSerialOutput(st["loop"], temp["loop"], setPoint)]
          /\ UNCHANGED <<counter, temp>>
       \/ /\ env.serialFaults
          /\ temp' = [temp EXCEPT !["loop"] = <<>>]
          /\ hist' = [hist EXCEPT
                        !.failed = IF env.maxTicks > 0 THEN @ \cup {hist.ticks} ELSE @,
                        !.reads = 0, !.tries = 0]
          /\ Jump("loop", "top")
          /\ UNCHANGED counter
    /\ UNCHANGED <<shared, config, shutdown, now, altCounter, acc, x, dec>>

\* the status line from state, temp_f and self.setPoint; ser.write.  A
\* failed write leaves the try block: counter = 1 and the tick ends.
LoopSerialWrite ==
    /\ pc["loop"] = "ser_fmt" /\ Runs("loop")
    /\ st' = [st EXCEPT !["loop"] = "off"]
    /\ \/ /\ Enter("loop", "s_acq", <<"log">>)
          /\ hist' = [hist EXCEPT
                        !.emitted = IF env.maxTicks > 0 THEN @ \cup {hist.ticks} ELSE @,
                        !.line = setupSerialOutput(st["loop"], temp["loop"], setPoint)]
          /\ UNCHANGED <<counter, temp>>
       \/ /\ env.serialFaults
          /\ temp' = [temp EXCEPT !["loop"] = <<>>]
          /\ counter' = 1
          /\ hist' = [hist EXCEPT
                        !.failed = IF env.maxTicks > 0 THEN @ \cup {hist.ticks} ELSE @,
                        !.reads = 0, !.tries = 0]
          /\ Jump("loop", "top")
    /\ UNCHANGED <<shared, config, shutdown, now, altCounter, acc, x, dec>>

\* counter = 0 in place of counter = 1 after the status line.
LoopLogResetsToZero ==
    /\ pc["loop"] = "log" /\ Runs("loop")
    /\ temp' = [temp EXCEPT !["loop"] = <<>>]
    /\ counter' = 0
    /\ hist' = [hist EXCEPT !.line = <<>>, !.reads = 0, !.tries = 0]
    /\ Jump("loop", "top")
    /\ UNCHANGED <<shared, config, shutdown, now, altCounter, acc, x, st, dec>>

\* db.log_reading(temp_val or 0, self.setPoint, state), inside the try
\* block of the status write; counter = 1
LoopLog ==
    /\ pc["loop"] = "log" /\ Runs("loop")
    /\ temp' = [temp EXCEPT !["loop"] = <<>>]
    /\ counter' = 1
    /\ \E ok \in DbOutcomes :
         /\ log_reading(ok) \in {"returns", "raises"}
         /\ hist' = [hist EXCEPT !.line = <<>>, !.reads = 0, !.tries = 0, !.stored = ok]
    /\ Jump("loop", "top")
    /\ UNCHANGED <<shared, config, shutdown, now, altCounter, acc, x, st, dec>>

\* while not self.endDisplay: the loop sees the flag, leaves the while and
\* calls screen.cleanupDisplay(); the thread returns
LoopExit ==
    /\ pc["loop"] = "top" /\ Alive
    /\ endDisplay
    /\ lcd' = lcd + 1
    /\ Jump("loop", "end")
    /\ UNCHANGED <<shared, config, endDisplay, main, now, counter, altCounter, acc, x,
                   temp, st, dec, hist>>

(***************************************************************************)
(* The main thread: the KeyboardInterrupt handler.  Nothing orders its     *)
(* steps against the loop thread and the callback thread but the sleep:    *)
(* sleep(1) after the flag lasts as long as the loop's                     *)
(* sleep(SAMPLE_PERIOD_S), so a loop that was between ticks when the flag  *)
(* was set wakes and sees the flag first ("grace_behind"); a loop that     *)
(* was inside a tick has its whole sleep still to come ("grace").          *)
(***************************************************************************)
\* repeat = False; tsm.endDisplay = True
KeyboardInterrupt ==
    /\ main = "wait"
    /\ endDisplay' = TRUE
    /\ main' = IF pc["loop"] = "top" THEN "grace_behind" ELSE "grace"
    /\ UNCHANGED <<shared, config, lcd, now, counter, altCounter, locals, hist>>

\* sleep(1); screen.cleanupDisplay()
MainCleanupDisplay ==
    /\ main = "grace" \/ (main = "grace_behind" /\ pc["loop"] = "end")
    /\ lcd' = lcd + 1
    /\ main' = "red"
    /\ UNCHANGED <<shared, config, endDisplay, now, counter, altCounter, locals, hist>>

\* redLight.off()
MainRedOff ==
    /\ main = "red"
    /\ redLight' = LedOff
    /\ main' = "blue"
    /\ UNCHANGED <<mode, baseSetPoint, manualOffset, setPoint, buf, sum, blueLight,
                   i2c_lock, config, endDisplay, lcd, now, counter, altCounter, locals,
                   hist>>

\* blueLight.off(); what follows only prints the last readings
MainBlueOff ==
    /\ main = "blue"
    /\ blueLight' = LedOff
    /\ main' = "done"
    /\ UNCHANGED <<mode, baseSetPoint, manualOffset, setPoint, buf, sum, redLight,
                   i2c_lock, config, endDisplay, lcd, now, counter, altCounter, locals,
                   hist>>

\* the main thread is through and the loop thread has returned: the
\* interpreter exits
MainExit ==
    /\ main = "done" /\ pc["loop"] = "end"
    /\ main' = "exited"
    /\ UNCHANGED <<shared, config, endDisplay, lcd, now, counter, altCounter, locals, hist>>

MainStep ==
    KeyboardInterrupt \/ MainCleanupDisplay \/ MainRedOff \/ MainBlueOff \/ MainExit

(***************************************************************************)
(* The button handlers                                                     *)
(***************************************************************************)

\* processTempStateButton: self.cycle() leaves the source state
\* (on_exit_heat, on_exit_cool)
processTempStateButton ==
    /\ pc["btn"] = "idle" /\ Runs("btn")
    /\ Presses < env.presses
    /\ CanCycle(mode)
    /\ \E ok \in DbOutcomes :
         /\ hist' = [hist EXCEPT !.mode = @ + 1, !.lit["btn"] = FALSE, !.stored = ok]
         /\ IF log_event(ok) = "returns"
            THEN /\ redLight' = IF mode = "heat" THEN LedOff ELSE redLight
                 /\ blueLight' = IF mode = "cool" THEN LedOff ELSE blueLight
                 /\ Jump("btn", "c_set")
            ELSE UNCHANGED <<redLight, blueLight, pc, stack>>
    /\ UNCHANGED <<mode, baseSetPoint, manualOffset, setPoint, buf, sum, i2c_lock,
                   config, shutdown, now, counter, altCounter, acc, x, temp, st, dec>>

\* the state changes; on_enter_heat and on_enter_cool call updateLights,
\* on_enter_off turns both lights off
CycleEnter ==
    /\ pc["btn"] = "c_set" /\ Runs("btn")
    /\ mode' = CycleTarget(mode)
    /\ hist' = [hist EXCEPT !.cur = SeenWith(CycleTarget(mode), setPoint)]
    /\ IF CycleTarget(mode) = "off"
       THEN Jump("btn", "e_red")
       ELSE Enter("btn", "r_sched", UpdateLights("idle"))
    /\ UNCHANGED <<baseSetPoint, manualOffset, setPoint, buf, sum, redLight, blueLight,
                   i2c_lock, config, shutdown, now, counter, altCounter, acc, x, temp, st, dec>>

\* on_enter_off: redLight.off()
EnterOffRed ==
    /\ pc["btn"] = "e_red" /\ Runs("btn")
    /\ redLight' = LedOff
    /\ Jump("btn", "e_blue")
    /\ UNCHANGED <<mode, baseSetPoint, manualOffset, setPoint, buf, sum, blueLight,
                   i2c_lock, config, shutdown, now, counter, altCounter, acc, x, temp, st, dec, hist>>

\* on_enter_off: blueLight.off()
EnterOffBlue ==
    /\ pc["btn"] = "e_blue" /\ Runs("btn")
    /\ blueLight' = LedOff
    /\ hist' = [hist EXCEPT !.lit["btn"] = TRUE]
    /\ Jump("btn", "idle")
    /\ UNCHANGED <<mode, baseSetPoint, manualOffset, setPoint, buf, sum, redLight,
                   i2c_lock, config, shutdown, now, counter, altCounter, acc, x, temp, st, dec>>

\* processTempIncButton: self.manualOffset += 1, then
\* _refreshEffectiveSetPoint() and updateLights()
processTempIncButton ==
    /\ pc["btn"] = "idle" /\ Runs("btn")
    /\ Presses < env.presses
    /\ manualOffset' = manualOffset + 1
    /\ \E ok \in DbOutcomes :
         /\ hist' = [hist EXCEPT !.inc = @ + 1, !.lit["btn"] = FALSE, !.stored = ok]
         /\ IF log_event(ok) = "returns"
            THEN Enter("btn", "r_sched", <<"r_sched">> \o UpdateLights("idle"))
            ELSE UNCHANGED <<pc, stack>>
    /\ UNCHANGED <<mode, baseSetPoint, setPoint, buf, sum, redLight, blueLight, i2c_lock,
                   config, shutdown, now, counter, altCounter, acc, x, temp, st, dec>>

\* processTempDecButton: self.manualOffset -= 1, then the same
processTempDecButton ==
    /\ pc["btn"] = "idle" /\ Runs("btn")
    /\ Presses < env.presses
    /\ manualOffset' = manualOffset - 1
    /\ \E ok \in DbOutcomes :
         /\ hist' = [hist EXCEPT !.dec = @ + 1, !.lit["btn"] = FALSE, !.stored = ok]
         /\ IF log_event(ok) = "returns"
            THEN Enter("btn", "r_sched", <<"r_sched">> \o UpdateLights("idle"))
            ELSE UNCHANGED <<pc, stack>>
    /\ UNCHANGED <<mode, baseSetPoint, setPoint, buf, sum, redLight, blueLight, i2c_lock,
                   config, shutdown, now, counter, altCounter, acc, x, temp, st, dec>>

(***************************************************************************)
(* Initial states and specifications                                       *)
(***************************************************************************)
\* The state after the module has been loaded and tsm.run() has started
\* the loop thread, in surroundings e.
InitIn(e) ==
    /\ env = e
    /\ mode = "off"
    /\ baseSetPoint = INITIAL_SETPOINT
    /\ manualOffset = 0
    /\ setPoint = INITIAL_SETPOINT
    /\ buf = <<>>
    /\ sum = 0
    /\ redLight = "off"
    /\ blueLight = "off"
    /\ i2c_lock = "free"
    /\ thSensor \in e.sensor
    /\ now = 0
    /\ sched_minutes = e.sched_minutes
    /\ sched_values = e.sched_values
    /\ counter = 1
    /\ altCounter = 1
    /\ pc = [t \in Threads |-> IF t = "loop" THEN "top" ELSE "idle"]
    /\ stack = [t \in Threads |-> <<>>]
    /\ acc = [t \in Threads |-> 0]
    /\ x = [t \in Threads |-> <<>>]
    /\ temp = [t \in Threads |-> <<>>]
    /\ st = [t \in Threads |-> "off"]
    /\ dec = [t \in Threads |-> "off"]
    /\ endDisplay = FALSE
    /\ main = "wait"
    /\ lcd = 0
    /\ hist = NoHistory

\* One step of the program text, by either thread.
Step(t) ==
    \/ RefreshSchedule(t) \/ RefreshBase(t) \/ RefreshLoad(t) \/ RefreshAdd(t)
    \/ RefreshStore(t)
    \/ SensorAcquire(t) \/ SensorRead(t) \/ Push(t)
    \/ LightsRedOff(t) \/ LightsBlueOff(t) \/ LightsState(t) \/ LightsDecide(t)
    \/ LightsSet(t)

LoopStep ==
    LoopTop \/ LoopShow \/ LoopLabel \/ LoopWrap \/ LoopSerial \/ LoopSerialWrite
    \/ LoopLog

ButtonStep ==
    \/ processTempStateButton \/ CycleEnter \/ EnterOffRed \/ EnterOffBlue
    \/ processTempIncButton \/ processTempDecButton

\* Sensor readings, in 1/CScale degrees C: 69.0 F and 71.0 F.
SeqCelsius == {370, 390}

\* Ticks and handlers run one after the other, each to completion; the
\* clock shows 05:59 or 06:00.
EnvSeq ==
    [preempt |-> FALSE, celsius |-> SeqCelsius, faults |-> TRUE,
     serialFaults |-> TRUE, sensor |-> BOOLEAN, minutes |-> {359, 360},
     window |-> window, trace |-> FALSE, show |-> FALSE, db |-> FALSE, scheduled |-> SCHEDULE_ENABLED, presses |-> MaxPresses, quiet |-> FALSE, maxTicks |-> 0,
     sched_minutes |-> schedule_minutes(SCHEDULE_ENTRIES),
     sched_values |-> schedule_values(SCHEDULE_ENTRIES)]
InitSeq == InitIn(EnvSeq)
NextSeq == (\E t \in Threads : Step(t)) \/ LoopStep \/ ButtonStep
SpecSeq == InitSeq /\ [][NextSeq]_vars

\* The loop thread and the button callback thread preempt each other; the
\* sensor, when there is one, reads 69.0 F, and the clock shows 06:00.
EnvConc ==
    [preempt |-> TRUE, celsius |-> {370}, faults |-> FALSE,
     serialFaults |-> FALSE, sensor |-> {TRUE}, minutes |-> {360},
     window |-> window, trace |-> FALSE, show |-> FALSE, db |-> FALSE, scheduled |-> SCHEDULE_ENABLED, presses |-> MaxPresses, quiet |-> FALSE, maxTicks |-> 0,
     sched_minutes |-> schedule_minutes(SCHEDULE_ENTRIES),
     sched_values |-> schedule_values(SCHEDULE_ENTRIES)]
Init == InitIn(EnvConc)
Next == (\E t \in Threads : Step(t)) \/ LoopStep \/ ButtonStep
Spec == Init /\ [][Next]_vars

\* The schedule lookup alone: the tables are the program's or any sorted
\* table of at most MaxEntries entries, the clock shows any minute of the
\* day, and the loop refreshes the setpoint once.
MaxEntries == 3
LookupKeys == {0, 360, 720, 1320, 1439}
DayMinutes == 0 .. (24 * 60 - 1)

RECURSIVE Ascending(_)
Ascending(S) ==
    IF S = {} THEN <<>>
    ELSE LET lo == CHOOSE k \in S : \A j \in S : k <= j
         IN  <<lo>> \o Ascending(S \ {lo})

LookupTables ==
    {Ascending(K) : K \in {L \in SUBSET LookupKeys :
                              Cardinality(L) >= 1 /\ Cardinality(L) <= MaxEntries}}

EnvLookup(ms, vs) ==
    [preempt |-> FALSE, celsius |-> {}, faults |-> FALSE, serialFaults |-> FALSE,
     sensor |-> {TRUE}, minutes |-> DayMinutes, window |-> window,
     trace |-> FALSE, show |-> FALSE, db |-> FALSE, scheduled |-> SCHEDULE_ENABLED, presses |-> MaxPresses, quiet |-> FALSE, maxTicks |-> 0, sched_minutes |-> ms, sched_values |-> vs]
InitLookup ==
    \/ InitIn(EnvLookup(schedule_minutes(SCHEDULE_ENTRIES),
                        schedule_values(SCHEDULE_ENTRIES)))
    \/ \E ms \in LookupTables : InitIn(EnvLookup(ms, [i \in 1..Len(ms) |-> 60 + i]))
NextLookup ==
    \/ LoopTop
    \/ \E t \in Threads :
         \/ RefreshSchedule(t) \/ RefreshBase(t) \/ RefreshLoad(t) \/ RefreshAdd(t)
         \/ RefreshStore(t)
SpecLookup == InitLookup /\ [][NextLookup]_vars

\* The filter alone: a filter of any window up to MaxWindow, built as the
\* constructor builds it, is fed the loop's readings of its first ticks (the
\* ticks that show the temperature, one push each); the readings are 70, 72,
\* 74 or 76 F in any order and the pushed samples are kept.
MaxWindow == 3
FilterCelsius == {380, 400, 420, 440}
EnvFilter(w) ==
    [preempt |-> FALSE, celsius |-> FilterCelsius, faults |-> FALSE,
     serialFaults |-> FALSE, sensor |-> {TRUE}, minutes |-> {360},
     window |-> MovingAverage(w), trace |-> TRUE, show |-> FALSE, db |-> FALSE, scheduled |-> SCHEDULE_ENABLED, presses |-> MaxPresses, quiet |-> FALSE, maxTicks |-> 0,
     sched_minutes |-> schedule_minutes(SCHEDULE_ENTRIES),
     sched_values |-> schedule_values(SCHEDULE_ENTRIES)]
InitFilter == \E w \in 0..MaxWindow : InitIn(EnvFilter(w))
NextFilter ==
    \/ LoopTop \/ LoopShow
    \/ \E t \in Threads :
         \/ RefreshSchedule(t) \/ RefreshBase(t) \/ RefreshLoad(t) \/ RefreshAdd(t)
         \/ RefreshStore(t) \/ SensorAcquire(t) \/ SensorRead(t) \/ Push(t)
SpecFilter == InitFilter /\ [][NextFilter]_vars

\* The sensor and the filter under preemption: the loop's ticks that show
\* the temperature and the Increment handler (the mode stays off), each
\* reading the sensor and pushing into the filter step by step; a read may
\* fail.
EnvSensor ==
    [preempt |-> TRUE, celsius |-> {370}, faults |-> TRUE,
     serialFaults |-> FALSE, sensor |-> {TRUE}, minutes |-> {360},
     window |-> window, trace |-> FALSE, show |-> FALSE, db |-> FALSE, scheduled |-> SCHEDULE_ENABLED, presses |-> MaxPresses, quiet |-> FALSE, maxTicks |-> 0,
     sched_minutes |-> schedule_minutes(SCHEDULE_ENTRIES),
     sched_values |-> schedule_values(SCHEDULE_ENTRIES)]
InitSensor == InitIn(EnvSensor)
NextSensor ==
    \/ LoopTop \/ LoopShow \/ processTempIncButton
    \/ \E t \in Threads :
         \/ RefreshSchedule(t) \/ RefreshBase(t) \/ RefreshLoad(t) \/ RefreshAdd(t)
         \/ RefreshStore(t) \/ SensorAcquire(t) \/ SensorRead(t)
         \/ PushAppend(t) \/ PushAddLoad(t) \/ PushAddStore(t) \/ PushLen(t)
         \/ PushSubLoad(t) \/ PushPopleft(t) \/ PushSubStore(t)
         \/ PushValue(t) \/ PushDivide(t)
         \/ LightsRedOff(t) \/ LightsBlueOff(t) \/ LightsState(t)
SpecSensor == InitSensor /\ [][NextSensor]_vars
\* Neither thread stops while it has a step to take: the loop thread and the
\* callback thread are both scheduled by the interpreter.
FairSensor == SpecSensor /\ \A t \in Threads : WF_vars(SensorAcquire(t) \/ SensorRead(t))

\* The loop alone over MaxTicks ticks, counted: no button is pressed (the
\* mode stays off), the sensor is there or not and a read may fail.
MaxTicks == 61
EnvTicks ==
    [preempt |-> FALSE, celsius |-> {370}, faults |-> TRUE,
     serialFaults |-> FALSE, sensor |-> BOOLEAN, minutes |-> {360},
     window |-> window, trace |-> FALSE, show |-> FALSE, db |-> FALSE, scheduled |-> SCHEDULE_ENABLED, presses |-> MaxPresses, quiet |-> FALSE, maxTicks |-> MaxTicks,
     sched_minutes |-> schedule_minutes(SCHEDULE_ENTRIES),
     sched_values |-> schedule_values(SCHEDULE_ENTRIES)]
InitTicks == InitIn(EnvTicks)
NextTicks ==
    \/ LoopStep
    \/ \E t \in Threads :
         \/ RefreshSchedule(t) \/ RefreshBase(t) \/ RefreshLoad(t) \/ RefreshAdd(t)
         \/ RefreshStore(t) \/ SensorAcquire(t) \/ SensorRead(t) \/ Push(t)
         \/ LightsRedOff(t) \/ LightsBlueOff(t) \/ LightsState(t)
SpecTicks == InitTicks /\ [][NextTicks]_vars

\* The loop alone over MaxTicks counted ticks with a serial port whose
\* writes may fail; the sensor is there and its reads succeed.
EnvSerial ==
    [preempt |-> FALSE, celsius |-> {370}, faults |-> FALSE,
     serialFaults |-> TRUE, sensor |-> {TRUE}, minutes |-> {360},
     window |-> window, trace |-> FALSE, show |-> FALSE, db |-> FALSE, scheduled |-> SCHEDULE_ENABLED, presses |-> MaxPresses, quiet |-> FALSE, maxTicks |-> MaxTicks,
     sched_minutes |-> schedule_minutes(SCHEDULE_ENTRIES),
     sched_values |-> schedule_values(SCHEDULE_ENTRIES)]
InitSerial == InitIn(EnvSerial)
NextSerial ==
    \/ LoopStep
    \/ \E t \in Threads :
         \/ RefreshSchedule(t) \/ RefreshBase(t) \/ RefreshLoad(t) \/ RefreshAdd(t)
         \/ RefreshStore(t) \/ SensorAcquire(t) \/ SensorRead(t) \/ Push(t)
         \/ LightsRedOff(t) \/ LightsBlueOff(t) \/ LightsState(t)
SpecSerial == InitSerial /\ [][NextSerial]_vars

\* Ticks and handlers one after the other with a database whose inserts
\* may fail; the sensor reads 69.0 F and the serial port works.
EnvDb ==
    [preempt |-> FALSE, celsius |-> {370}, faults |-> FALSE,
     serialFaults |-> FALSE, sensor |-> {TRUE}, minutes |-> {360},
     window |-> window, trace |-> FALSE, show |-> FALSE, db |-> TRUE, scheduled |-> SCHEDULE_ENABLED, presses |-> MaxPresses, quiet |-> FALSE, maxTicks |-> 0,
     sched_minutes |-> schedule_minutes(SCHEDULE_ENTRIES),
     sched_values |-> schedule_values(SCHEDULE_ENTRIES)]
InitDb == InitIn(EnvDb)
NextDb == (\E t \in Threads : Step(t)) \/ LoopStep \/ ButtonStep
SpecDb == InitDb /\ [][NextDb]_vars

\* Ticks and handlers one after the other, the fields of the display lines
\* kept; the sensor reads 69.0 F.
EnvShow ==
    [preempt |-> FALSE, celsius |-> {370}, faults |-> FALSE,
     serialFaults |-> FALSE, sensor |-> {TRUE}, minutes |-> {360},
     window |-> window, trace |-> FALSE, show |-> TRUE, db |-> FALSE, scheduled |-> SCHEDULE_ENABLED, presses |-> MaxPresses, quiet |-> FALSE, maxTicks |-> 0,
     sched_minutes |-> schedule_minutes(SCHEDULE_ENTRIES),
     sched_values |-> schedule_values(SCHEDULE_ENTRIES)]
InitShow == InitIn(EnvShow)
NextShow == (\E t \in Threads : Step(t)) \/ LoopStep \/ ButtonStep
SpecShow == InitShow /\ [][NextShow]_vars

\* Ticks and handlers one after the other in three builds: the program's,
\* one with SCHEDULE_ENABLED = False, and one with no schedule entry.
EnvOff(on, entries) ==
    [preempt |-> FALSE, celsius |-> {370}, faults |-> FALSE,
     serialFaults |-> FALSE, sensor |-> {TRUE}, minutes |-> {360, 1320},
     window |-> window, trace |-> FALSE, show |-> FALSE, db |-> FALSE,
     scheduled |-> on, presses |-> MaxPresses, quiet |-> FALSE, maxTicks |-> 0,
     sched_minutes |-> schedule_minutes(entries),
     sched_values |-> schedule_values(entries)]
InitOff ==
    \/ InitIn(EnvOff(SCHEDULE_ENABLED, SCHEDULE_ENTRIES))
    \/ InitIn(EnvOff(FALSE, SCHEDULE_ENTRIES))
    \/ InitIn(EnvOff(SCHEDULE_ENABLED, <<>>))
NextOff == (\E t \in Threads : Step(t)) \/ LoopStep \/ ButtonStep
SpecOff == InitOff /\ [][NextOff]_vars

\* The threads preempt each other until the run's last button event, any
\* number of events up to MaxPresses; the ticks begun after it are counted.
EnvQuiet(n) ==
    [preempt |-> TRUE, celsius |-> {370}, faults |-> FALSE,
     serialFaults |-> FALSE, sensor |-> {TRUE}, minutes |-> {360},
     window |-> window, trace |-> FALSE, show |-> FALSE, db |-> FALSE,
     scheduled |-> SCHEDULE_ENABLED, presses |-> n, quiet |-> TRUE, maxTicks |-> 0,
     sched_minutes |-> schedule_minutes(SCHEDULE_ENTRIES),
     sched_values |-> schedule_values(SCHEDULE_ENTRIES)]
InitQuiet == \E n \in 0..MaxPresses : InitIn(EnvQuiet(n))
NextQuiet == (\E t \in Threads : Step(t)) \/ LoopStep \/ ButtonStep
SpecQuiet == InitQuiet /\ [][NextQuiet]_vars

\* Shutdown: the program as in Spec with the mode button and the Increment
\* button, and at any moment the main thread is interrupted and runs its
\* handler while the loop thread and the callback thread go on; the process
\* ends when the main thread and the loop thread are through.
InitDown == InitIn(EnvConc)
NextDown ==
    \/ \E t \in Threads : Step(t)
    \/ LoopStep \/ LoopExit
    \/ processTempStateButton \/ CycleEnter \/ EnterOffRed \/ EnterOffBlue
    \/ processTempIncButton
    \/ MainStep
SpecDown == InitDown /\ [][NextDown]_vars

\* Shutdown during the first StopTicks ticks of the loop (a display window
\* and the tick after it), with the Increment button only (the mode stays
\* off), and both threads scheduled: a thread that can take a step takes
\* one in the end (the callback thread gives back the sensor lock, the
\* loop thread gets through its tick).
StopTicks == 11
EnvStop ==
    [preempt |-> TRUE, celsius |-> {370}, faults |-> FALSE,
     serialFaults |-> FALSE, sensor |-> {TRUE}, minutes |-> {360},
     window |-> window, trace |-> FALSE, show |-> FALSE, db |-> FALSE, scheduled |-> SCHEDULE_ENABLED, presses |-> MaxPresses, quiet |-> FALSE,
     maxTicks |-> StopTicks,
     sched_minutes |-> schedule_minutes(SCHEDULE_ENTRIES),
     sched_values |-> schedule_values(SCHEDULE_ENTRIES)]
InitStop == InitIn(EnvStop)
ThreadStop(t) ==
    \/ RefreshSchedule(t) \/ RefreshBase(t) \/ RefreshLoad(t) \/ RefreshAdd(t)
    \/ RefreshStore(t) \/ SensorAcquire(t) \/ SensorRead(t) \/ Push(t)
    \/ LightsRedOff(t) \/ LightsBlueOff(t) \/ LightsState(t)
LoopStop == LoopTop \/ LoopShow \/ LoopLabel \/ LoopWrap \/ LoopExit
NextStop ==
    \/ \E t \in Threads : ThreadStop(t)
    \/ LoopStop
    \/ processTempIncButton
    \/ MainStep
SpecStop == InitStop /\ [][NextStop]_vars
FairStop ==
    /\ SpecStop
    /\ WF_vars(LoopStop \/ ThreadStop("loop"))
    /\ WF_vars(ThreadStop("btn"))

(***************************************************************************)
(* Properties                                                              *)
(***************************************************************************)
BothOff == redLight = "off" /\ blueLight = "off"
RefreshPcs == {"r_sched", "r_base", "r_load", "r_add", "r_store"}
\* The loop is inside the updateLights call of its label tick.
LoopInUpdateLights ==
    \E i \in 1..Len(stack["loop"]) : stack["loop"][i] = "wrap"
\* Thread t takes the step that ends updateLights at program point p.
Leaves(t, p) == pc[t] = p /\ pc'[t] # p

\* The k-th successor of Off in Off -> Heat -> Cool -> Off.
ModeAfter(k) == <<"off", "heat", "cool">>[(k % 3) + 1]

\* C1: the mode starts at Off and is always the k-th successor of Off in
\* Off -> Heat -> Cool -> Off, k the number of CycleMode events (an event
\* whose state change is still to come counts from that change on);
\* CycleMode has a transition in every reachable mode; no step but the
\* state change of a CycleMode event changes the mode.
C1_ModeIsKthSuccessor ==
    /\ [](/\ CanCycle(mode)
          /\ mode = ModeAfter(IF pc["btn"] = "c_set" THEN hist.mode - 1 ELSE hist.mode))
    /\ [][mode' # mode => Leaves("btn", "c_set")]_vars
C1_Witness ==
    /\ hist.mode = 3 /\ pc["btn"] = "idle" /\ mode = "off"
    /\ counter > 1

\* C2: when updateLights runs to its end in mode Off (no other handler or
\* tick in between), both lights are off when it returns, with or without
\* a reading and for every setpoint.
C2_OffTurnsBothOff ==
    [][\A t \in Threads : (Leaves(t, "u_state") /\ mode = "off") => BothOff']_vars
C2_Witness ==
    /\ pc["loop"] = "wrap" /\ mode = "off" /\ BothOff
    /\ buf # <<>> /\ manualOffset # 0

C5_NoReadingIsSolid ==
    [][\A t \in Threads :
            (Leaves(t, "u_set") /\ temp[t] = <<>>) =>
                /\ st[t] \in {"heat", "cool"}
                /\ st[t] = "heat" => redLight' = "solid" /\ blueLight' = "off"
                /\ st[t] = "cool" => blueLight' = "solid" /\ redLight' = "off"
      ]_vars
\* A read has failed with the sensor present, samples in the filter whose
\* average would pulse in Heat, and updateLights has chosen solid.
C5_Witness ==
    /\ thSensor /\ pc["btn"] = "u_set" /\ st["btn"] = "heat" /\ temp["btn"] = <<>>
    /\ buf # <<>> /\ AvgLess(<<sum, Len(buf)>>, (setPoint - HYSTERESIS_F) * FScale)
    /\ dec["btn"] = "solid"

\* C6: the red and the blue light are never both active (solid or
\* pulsing), in every interleaving of a button handler with the loop.
C6_NeverBothActive == ~(redLight # "off" /\ blueLight # "off")

\* C7: in mode Off, with no button handler running and the loop outside
\* updateLights, both lights are off.
C7_OffMeansBothOff ==
    (mode = "off" /\ pc["btn"] = "idle" /\ ~LoopInUpdateLights) => BothOff

\* The setpoint of the greatest entry whose minute is <= m, and of the
\* last entry when no entry qualifies.
EntryInEffect(ms, vs, m) ==
    LET started == {i \in 1..Len(ms) : ms[i] <= m}
    IN  IF started = {} THEN vs[Len(vs)]
        ELSE vs[CHOOSE i \in started : \A j \in started : ms[j] <= ms[i]]

\* C11: every light decision is computed from a state and a setpoint that
\* were in force together at some instant: whenever a thread that holds a
\* reading is about to read self.setPoint for the decision, the setpoint is
\* one that has been in force together with the state the thread has read,
\* in every interleaving of the button handlers with the loop's updateLights.
C11_NoTornDecision ==
    \A t \in Threads :
        (pc[t] = "u_decide" /\ temp[t] # <<>>) => setPoint \in hist.cur[t]

\* The last k elements of a sequence, and the sum of a sequence.
LastK(q, k) == SubSeq(q, Len(q) - k + 1, Len(q))
RECURSIVE SeqSum(_)
SeqSum(q) == IF q = <<>> THEN 0 ELSE Head(q) + SeqSum(Tail(q))
Min(a, b) == IF a < b THEN a ELSE b

\* C12: for every window W >= 1 and every sequence of n >= 1 pushes made one
\* after the other, push returns the average of the last min(n, W) samples
\* pushed and the buffer holds exactly those, oldest first; with W = 1 it
\* returns the sample itself; with W = 3, pushing 70, 72, 74, 76 returns
\* 70, 71, 72, 74.
C12_PushReturnsWindowAverage ==
    pc["loop"] = "show" =>
        LET n == Len(hist.pushed)
            k == Min(n, env.window)
            r == temp["loop"]
        IN  /\ n >= 1 /\ env.window >= 1
            /\ r = <<SeqSum(LastK(hist.pushed, k)), k>>
            /\ buf = LastK(hist.pushed, k)
            /\ env.window = 1 => r = <<hist.pushed[n], 1>>
            /\ env.window = 3 =>
                  /\ hist.pushed = <<700>> => r[1] = 700 * r[2]
                  /\ hist.pushed = <<700, 720>> => r[1] = 710 * r[2]
                  /\ hist.pushed = <<700, 720, 740>> => r[1] = 720 * r[2]
                  /\ hist.pushed = <<700, 720, 740, 760>> => r[1] = 740 * r[2]
\* Window 3, after the fourth push of 70, 72, 74, 76: 70 has been evicted.
C12_Witness ==
    /\ pc["loop"] = "show" /\ env.window = 3
    /\ hist.pushed = <<700, 720, 740, 760>>
    /\ buf = <<720, 740, 760>> /\ temp["loop"] = <<2220, 3>>

\* C13: when a push completes the buffer holds at most W samples, and
\* value() is absent exactly when the buffer is empty, also when the pushes
\* of the loop and of a button handler interleave.
C13_BufferBounded ==
    [][\A t \in Threads :
         /\ Leaves(t, "p_div") => (Len(buf') <= env.window /\ temp'[t] # <<>>)
         /\ Leaves(t, "p_val") => (pc'[t] = "p_div" <=> buf # <<>>)]_vars

\* C14: the status line is written on exactly the ticks numbered 30, 60, ...:
\* never on the first tick, never on another tick, on every such tick once
\* the tick is over, and two consecutive status ticks are 30 ticks apart.
C14_StatusEveryThirtiethTick ==
    /\ \A k \in hist.emitted : k # 1 /\ k % 30 = 0 /\ k <= hist.ticks
    /\ pc["loop"] = "top" => hist.emitted = {k \in 1..hist.ticks : k % 30 = 0}
    /\ \A a, b \in hist.emitted :
          (a < b /\ ~\E c \in hist.emitted : a < c /\ c < b) => b - a = 30
C14_Witness ==
    pc["loop"] = "top" /\ hist.ticks = 60 /\ hist.emitted = {30, 60} /\ counter = 1

\* The status line has just been written: the loop is about to take the
\* reading for the log entry.
StatusWritten ==
    hist.line # <<>> /\ pc["loop"] = "s_acq" /\ stack["loop"] = <<"log">>

\* C15: with handlers and ticks run one after the other, every status line
\* written is mode,temp,setpoint: the current mode's label, the floor of the
\* smoothed Fahrenheit value or NA exactly when the reading is absent, and
\* baseSetPoint + manualOffset; heat, 69.7, 70 gives heat,69,70 and no
\* reading gives heat,NA,70.
C15_StatusLine ==
    /\ setupSerialOutput("heat", <<697, 1>>, 70) = <<"heat", "69", "70">>
    /\ setupSerialOutput("heat", <<>>, 70) = <<"heat", "NA", "70">>
    /\ StatusWritten =>
          /\ Len(hist.line) = 3
          /\ hist.line[1] = mode /\ mode \in {"off", "heat", "cool"}
          /\ hist.line[3] = ToString(baseSetPoint + manualOffset)
          /\ hist.line[2] = "NA" <=> temp["loop"] = <<>>
          /\ temp["loop"] # <<>> =>
                \E f \in 0..200 :
                    /\ hist.line[2] = ToString(f)
                    /\ f * FScale * Len(buf) <= sum
                    /\ sum < (f + 1) * FScale * Len(buf)
\* In heat at setpoint 70 the read for the status line fails while the
\* filter still holds samples.
C15_Witness ==
    StatusWritten /\ hist.line = <<"heat", "NA", "70">> /\ buf # <<>>

\* C16: within one tick the loop takes at most one sensor reading (one push
\* into the filter); the status line and the reading log entry of a status
\* tick use that one value.
C16_OneReadingPerTick == hist.reads <= 1

\* The i2c lock at any instant: at most one thread is inside the sensor
\* transaction, the lock is held exactly while its holder is at the read,
\* and the holder can always go on to the end of the with block.
LockHeldForTheRead ==
    /\ ~(pc["loop"] = "s_read" /\ pc["btn"] = "s_read")
    /\ \A t \in Threads : i2c_lock = t <=> pc[t] = "s_read"
    /\ i2c_lock \in Threads \cup {"free"}
    /\ \A t \in Threads : pc[t] = "s_read" => ENABLED SensorRead(t)

\* C17: at most one of the loop and the button handler is inside a sensor
\* transaction; the lock is held only for the read and released after every
\* read, also one that fails; a thread that waits for the lock gets it.
C17_SensorLock ==
    /\ []LockHeldForTheRead
    /\ \A t \in Threads : (pc[t] = "s_acq") ~> (pc[t] # "s_acq")
\* The handler waits for the lock while the loop is inside a read that
\* can fail.
C17_Witness ==
    /\ pc["loop"] = "s_read" /\ pc["btn"] = "s_acq" /\ i2c_lock = "loop"
    /\ buf # <<>>

\* C18: once the main thread has set the flag, slept and run its cleanup
\* (the display released, both lights switched off), both lights are off
\* and stay off while the process lives, wherever the loop was in its tick
\* and whatever buttons are pressed.
C18_OffAfterShutdown ==
    main = "done" => (redLight = LedOff /\ blueLight = LedOff)

\* C19: screen.cleanupDisplay() runs once in a shutdown, and only when the
\* loop has seen the flag and left its while, so that the loop does not
\* write to a display that has been released.
C19_DisplayReleasedOnce ==
    /\ lcd <= 1
    /\ lcd > 0 => pc["loop"] = "end"

\* The loop ends a tick (it goes to sleep); the callback thread ends a
\* handler.
TickEnds == pc["loop"] # "top" /\ pc'["loop"] = "top"
HandlerEnds == pc["btn"] # "idle" /\ pc'["btn"] = "idle"

\* C20 as stated: the lights are set for the current mode in every tick of
\* the loop and in every handler of a button event.
C20_RecomputedEveryTick ==
    [][/\ TickEnds => hist'.lit["loop"]
       /\ HandlerEnds => hist'.lit["btn"]
      ]_vars

\* C20: the lights are set for the current mode in every tenth tick of the
\* loop, the tick that closes the display window (ticks 10, 20 and 30 of
\* every 30, after which altCounter is 1 again) and in no other tick, and
\* in every handler of a button event (mode, Increment, Decrement).
C20_RecomputedOnTenthTickAndEvents ==
    /\ [](pc["loop"] = "top" => altCounter = ((counter - 1) % (ALT_WRAP_AT - 1)) + 1)
    /\ [][/\ TickEnds => (hist'.lit["loop"] <=> altCounter' = 1)
          /\ HandlerEnds => hist'.lit["btn"]
         ]_vars
\* The tenth tick has ended with the lights set, after a mode event and an
\* Increment event.
C20_Witness ==
    /\ pc["loop"] = "top" /\ counter = ALT_WRAP_AT /\ altCounter = 1
    /\ hist.lit["loop"]
    /\ pc["btn"] = "idle" /\ hist.mode > 0 /\ hist.inc > 0 /\ hist.lit["btn"]
    /\ mode = "heat" /\ redLight # LedOff

\* Ticks of one display window, and its ticks that show the temperature.
WindowTicks == ALT_WRAP_AT - 1
TempTicks == ALT_LABEL_FROM - 1

\* C21: altCounter is 1 at the start and 1 again after every tenth tick;
\* every tick passes one second line to the display, the temperature and
\* setpoint line on ticks 1-5 of every 10 ticks and the state label on
\* ticks 6-10.
C21_DisplayAlternation ==
    /\ [](pc["loop"] = "top" => altCounter = (hist.ticks % WindowTicks) + 1)
    /\ [][TickEnds =>
            /\ Len(hist'.shown) = 1
            /\ hist'.shown[1][1] =
                 IF (hist.ticks - 1) % WindowTicks < TempTicks THEN "Temp" ELSE "Label"
         ]_vars
\* Tick 11 has shown the temperature again, tick 10 having closed the first
\* window.
C21_Witness ==
    /\ pc["loop"] = "top" /\ hist.ticks = WindowTicks + 1
    /\ hist.shown = <<TempLine(<<>>, setPoint)>> /\ altCounter = 2

\* C22: the loop runs updateLights in the tenth tick of every window, a
\* tick that shows the label and leaves altCounter at 1, and in no other
\* tick: never in a tick that shows the temperature, and in one tick of
\* each window.
C22_PolicyOnClosingLabelTick ==
    [][TickEnds =>
         /\ hist'.lit["loop"] <=> (hist.ticks % WindowTicks = 0)
         /\ hist'.lit["loop"] => (hist'.shown = <<LabelLine(mode)>> /\ altCounter' = 1)
         /\ hist'.shown[1][1] = "Temp" => ~hist'.lit["loop"]
      ]_vars
\* Tick 20 has closed the second window with updateLights; the loop sleeps.
C22_Witness ==
    /\ pc["loop"] = "top" /\ hist.ticks = 2 * WindowTicks /\ hist.lit["loop"]
    /\ hist.shown = <<LabelLine(mode)>> /\ altCounter = 1

\* C23: in every tick the loop calls the sensor once, so that one sample
\* goes into the filter when the read succeeds and none when it fails.
C23_OneSamplePerTick ==
    [][TickEnds => (hist.tries = 1 /\ hist.reads <= 1)]_vars

\* Thread t's call of getFahrenheit returns None: there is no sensor or
\* the read raised.
FailedRead(t) ==
    /\ pc[t] \in {"s_acq", "s_read"}
    /\ pc'[t] \notin {"s_acq", "s_read", "p_push"}

\* C24: a call of _getSmoothedFahrenheit whose read fails returns None and
\* leaves ma.buf and ma.sum as they were; the next successful read is
\* averaged with the samples that were kept.
C24_FailedReadKeepsFilter ==
    [][\A t \in Threads :
         /\ FailedRead(t) => (temp'[t] = <<>> /\ buf' = buf /\ sum' = sum)
         /\ Leaves(t, "p_push") =>
              /\ buf' = LastK(Append(buf, x[t][1]), Min(Len(buf) + 1, env.window))
              /\ sum' = SeqSum(buf')
              /\ temp'[t] = <<SeqSum(buf'), Len(buf')>>
      ]_vars
\* A read of the loop has just failed with a sensor present and a sample in
\* the filter.
C24_Witness ==
    /\ pc["loop"] = "show" /\ temp["loop"] = <<>> /\ thSensor
    /\ buf # <<>> /\ sum = SeqSum(buf)

\* Ticks so far on which the status line was due.
StatusTicks == {k \in 1..hist.ticks : k % STATUS_PERIOD_S = 0}

\* C25: a status tick whose write fails ends as the others do: the counter
\* is 1, no line has gone out, the loop can start its next tick, and the
\* writes attempted so far (sent or failed) are those of ticks S, 2S, ...:
\* none is repeated on the tick after a failure and the next comes S ticks
\* later.
C25_FailedWriteSkipped ==
    /\ hist.emitted \cap hist.failed = {}
    /\ hist.emitted \cup hist.failed \subseteq StatusTicks
    /\ pc["loop"] = "top" =>
          /\ hist.emitted \cup hist.failed = StatusTicks
          /\ hist.ticks \in hist.failed => (counter = 1 /\ hist.line = <<>>)
          /\ hist.ticks < MaxTicks => ENABLED LoopTop
\* The write of tick 30 failed and the write of tick 60 went out.
C25_Witness ==
    /\ pc["loop"] = "top" /\ hist.ticks = 2 * STATUS_PERIOD_S
    /\ hist.failed = {STATUS_PERIOD_S} /\ hist.emitted = {2 * STATUS_PERIOD_S}

\* C26: an insert that fails changes nothing but the database.  Whether
\* the insert of a handler or of a status tick goes through or not, the
\* mode handler goes on to its state change (the light of the state left
\* is off), the Increment and Decrement handlers have moved the offset by
\* one and go on to the refresh and updateLights, every handler ends with
\* the lights set and setPoint = baseSetPoint + manualOffset, and the status
\* tick ends with counter = 1.
C26_PersistenceFaultsIgnored ==
    [][/\ hist'.mode # hist.mode =>
            /\ pc'["btn"] = "c_set"
            /\ mode = "heat" => redLight' = LedOff
            /\ mode = "cool" => blueLight' = LedOff
       /\ hist'.inc # hist.inc =>
            (manualOffset' = manualOffset + 1 /\ pc'["btn"] = "r_sched")
       /\ hist'.dec # hist.dec =>
            (manualOffset' = manualOffset - 1 /\ pc'["btn"] = "r_sched")
       /\ HandlerEnds =>
            (hist'.lit["btn"] /\ setPoint' = baseSetPoint' + manualOffset')
       /\ Leaves("loop", "log") => (counter' = 1 /\ pc'["loop"] = "top")
      ]_vars
\* The insert of an Increment event failed; its handler has ended with the
\* setpoint raised and the red light set for heat.
C26_Witness ==
    /\ ~hist.stored /\ pc["btn"] = "idle" /\ pc["loop"] = "top" /\ counter < STATUS_PERIOD_S
    /\ hist.inc = 1 /\ hist.mode = 1 /\ hist.dec = 0 /\ hist.lit["btn"]
    /\ manualOffset = 1 /\ setPoint = baseSetPoint + 1 /\ redLight # LedOff

\* C27: once endDisplay is set the loop starts no tick (from the top of
\* the while it only leaves), so it ends the tick in progress at most, and
\* it leaves the while in the end.
C27_LoopStopsAfterFlag ==
    /\ [][(endDisplay /\ pc["loop"] = "top") => pc'["loop"] \in {"top", "end"}]_vars
    /\ [](pc["loop"] = "end" => endDisplay)
    /\ endDisplay ~> (pc["loop"] = "end")
\* The flag was set during a tick of the loop; the loop has ended that tick
\* and left the while before the main thread is through its sleep.
C27_Witness ==
    /\ pc["loop"] = "end" /\ main = "grace" /\ endDisplay /\ counter > 1

\* The lookup of _refreshEffectiveSetPoint is skipped.
NoSchedule == ~env.scheduled \/ sched_minutes = <<>>

\* C29: with the schedule disabled or the table empty, baseSetPoint stays
\* at its initial 72 through every tick and event, manualOffset moves by
\* one per Increment or Decrement, and setPoint changes only at the refresh
\* of such a handler, by exactly the +1 or -1 of that event.
C29_BaseHeldWithoutSchedule ==
    /\ [](NoSchedule => baseSetPoint = INITIAL_SETPOINT)
    /\ [][NoSchedule =>
            /\ manualOffset' # manualOffset =>
                  \/ hist'.inc = hist.inc + 1 /\ manualOffset' = manualOffset + 1
                  \/ hist'.dec = hist.dec + 1 /\ manualOffset' = manualOffset - 1
            /\ setPoint' # setPoint =>
                  /\ Leaves("btn", "r_store")
                  /\ setPoint' = INITIAL_SETPOINT + hist.inc - hist.dec
                  /\ setPoint' - setPoint \in {1, -1}
         ]_vars
\* In the build with the schedule disabled, two Increments and the ticks
\* after them: 72 + 2.
C29_Witness ==
    /\ ~env.scheduled /\ sched_minutes # <<>>
    /\ pc["loop"] = "top" /\ pc["btn"] = "idle" /\ altCounter > 1
    /\ hist.inc = 2 /\ hist.dec = 0
    /\ baseSetPoint = INITIAL_SETPOINT /\ setPoint = INITIAL_SETPOINT + 2

\* Thread t is inside MovingAverage.push: between its append and the return
\* of self.value().
InPush(t) ==
    pc[t] \in {"p_add", "p_addst", "p_len", "p_sub", "p_pop", "p_subst", "p_val", "p_div"}

\* C30: whenever no push is in progress the filter's running sum is the sum
\* of the samples in its buffer, also when the push of a button handler's
\* updateLights interleaves step by step with the push of the loop's tick.
C30_SumMatchesBuffer ==
    (\A t \in Threads : ~InPush(t)) => sum = SeqSum(buf)

\* The decision table of updateLights: the outputs <<red, blue>> for a
\* mode, a smoothed temperature and an effective setpoint.
DecisionTable(state, t_sm, sp) ==
    IF state = "off" THEN <<LedOff, LedOff>>
    ELSE IF state = "heat" THEN <<LightOutput(state, t_sm, sp), LedOff>>
    ELSE <<LedOff, LightOutput(state, t_sm, sp)>>

\* C31: once the button events have stopped and ten ticks begun after the
\* last handler are over, the lights are the decision table's output for
\* the mode, the effective setpoint and the filter's latest average, at the
\* end of that tick and of every later one, whatever an interleaving of a
\* handler with the loop had left on the lights before.
C31_LightsRecoverWithinWindow ==
    (hist.quiet >= WindowTicks /\ pc["loop"] = "top" /\ pc["btn"] = "idle") =>
        /\ setPoint = baseSetPoint + manualOffset
        /\ <<redLight, blueLight>> = DecisionTable(mode, MAValue(buf, sum), setPoint)
\* Ten quiet ticks after the events heat and two Increments: 69 F is
\* below 72 - 1 and the red light pulses.
C31_Witness ==
    /\ hist.quiet >= WindowTicks /\ pc["loop"] = "top" /\ pc["btn"] = "idle"
    /\ mode = "heat" /\ hist.inc = 2 /\ setPoint = 72
    /\ redLight = "pulse" /\ blueLight = LedOff

\* The mode and the offset left by the button events handled so far.
EventMode == ModeAfter(hist.mode)
EventOffset == hist.inc - hist.dec

\* C28: with every handler run to its end before the tick begins, what
\* the tick produces after its refresh carries the mode and the offset the
\* events left: self.setPoint is baseSetPoint + offset, the display line
\* shows that setpoint or that mode, the status line carries both, and
\* updateLights decides for that mode against that setpoint.
C28_EventVisibleToTick ==
    /\ [](pc["loop"] \notin RefreshPcs \cup {"top", "end"} =>
            /\ mode = EventMode /\ manualOffset = EventOffset
            /\ setPoint = baseSetPoint + EventOffset)
    /\ [](StatusWritten =>
            /\ hist.line[1] = EventMode
            /\ hist.line[3] = ToString(baseSetPoint + EventOffset))
    /\ [][/\ hist'.shown # hist.shown /\ hist'.shown # <<>> =>
              LET line == hist'.shown[Len(hist'.shown)]
              IN  \/ line = <<"Label", EventMode>>
                  \/ /\ Len(line) = 3 /\ line[1] = "Temp"
                     /\ line[3] = ToString(baseSetPoint + EventOffset)
          /\ Leaves("loop", "u_decide") =>
              /\ st["loop"] = EventMode
              /\ dec'["loop"] = LightOutput(EventMode, temp["loop"],
                                            baseSetPoint + EventOffset)
         ]_vars
\* After an Increment event the next tick has shown 69 F against the
\* raised setpoint.
C28_Witness ==
    /\ pc["loop"] = "top" /\ pc["btn"] = "idle" /\ hist.inc = 1 /\ hist.dec = 0
    /\ hist.shown = <<<<"Temp", "69", ToString(baseSetPoint + 1)>>>>

\* C8: for a non-empty schedule with strictly increasing minutes and every
\* minute m of the day, the refresh sets baseSetPoint to the setpoint of the
\* greatest entry whose minute is <= m, and to the last entry's before the
\* first entry; for [(360,70),(1320,65)]: 0 -> 65, 359 -> 65, 360 -> 70,
\* 1319 -> 70, 1320 -> 65.
C8_ScheduleLookup ==
    pc["loop"] = "r_load" =>
        /\ baseSetPoint = EntryInEffect(sched_minutes, sched_values, now)
        /\ (sched_minutes = <<360, 1320>> /\ sched_values = <<70, 65>>) =>
              /\ now \in {0, 359, 1320} => baseSetPoint = 65
              /\ now \in {360, 1319} => baseSetPoint = 70
\* The program's schedule at 06:00 sharp: the entry that starts now counts.
C8_Witness ==
    /\ pc["loop"] = "r_load" /\ now = 360
    /\ sched_minutes = <<360, 1320>> /\ baseSetPoint = 70

\* C9: with handlers and ticks run one after the other, manualOffset is the
\* number of Increments minus the number of Decrements, and outside a
\* refresh (after every refresh, after every Increment or Decrement
\* handler) setPoint = baseSetPoint + manualOffset.
C9_EffectiveSetPoint ==
    /\ manualOffset = hist.inc - hist.dec
    /\ (\A t \in Threads : pc[t] \notin RefreshPcs) =>
          setPoint = baseSetPoint + manualOffset
\* Base 70 and three Decrements: 67.
C9_Witness ==
    /\ pc["btn"] = "idle" /\ pc["loop"] = "top" /\ hist.dec = 3
    /\ baseSetPoint = 70 /\ manualOffset = -3 /\ setPoint = 67

\* Thread t is about to read self.setPoint for the display line, the
\* status line, the reading log or the light policy.
ReadsSetPoint(t) ==
    \/ t = "loop" /\ pc[t] \in {"show", "ser_fmt", "log"}
    \/ pc[t] = "u_decide" /\ temp[t] # <<>>

\* C10: in every interleaving of an Increment or Decrement handler with the
\* loop, a read of setPoint for display, status or the lights sees
\* baseSetPoint + manualOffset, and once the loop has completed its refresh
\* (no handler running) setPoint is baseSetPoint + manualOffset.
C10_NoStaleSetPoint ==
    /\ \A t \in Threads : ReadsSetPoint(t) => setPoint = baseSetPoint + manualOffset
    /\ (pc["btn"] = "idle" /\ pc["loop"] \notin RefreshPcs) =>
          setPoint = baseSetPoint + manualOffset
====
